---- MODULE Spec2Model ----
(***************************************************************************)
(* Session runtime hub of the SEEDS live-classroom backend:                *)
(*   backend/ws_manager.py  (WebSocketManager, SESSION_STATE, SESSION_LOCK)*)
(*   backend/main.py        (request handlers that drive the hub)          *)
(*                                                                         *)
(* The server is a single asyncio event loop.  A coroutine runs without    *)
(* interruption from one suspension point to the next, and no method of    *)
(* WebSocketManager suspends anywhere but at the acquisition of            *)
(* SESSION_LOCK, so each hub method is one atomic action that is enabled   *)
(* when the lock is free.  The only code that suspends while holding the   *)
(* lock is control_audio_playback (a database query inside the locked      *)
(* region); it is modelled as two actions.  A call that arrives while the  *)
(* lock is held, or while earlier calls wait for it, joins the queue       *)
(* `waiters`; asyncio.Lock resumes waiters in arrival order.               *)
(*                                                                         *)
(* Python dicts are functions whose DOMAIN is the set of keys present.     *)
(* Python None is 0 for audio_id and title; real audio ids start at 1.     *)
(***************************************************************************)
EXTENDS Integers, Sequences, FiniteSets, TLC

\* ---------------------------------------------------------------- bounds
\* capacity of one client queue: asyncio.Queue(maxsize=256), scaled down
QueueCap == 2
\* number of queues that connect may create in one run
MaxChans == 3
\* audio positions are 0..MaxPos
MaxPos == 1
\* number of operations invoked in one run
MaxOps == 5

SessionIds == {1}
\* session ids that nothing ever connects to or creates
OtherSessions == {2}
\* two live sessions side by side
BothSessions == {1, 2}
Pids == {1, 2}
AudioIds == {1}
\* audio files asked for by the requests that queue on the lock
RaceAudioIds == {1, 2}
\* speeds asked for by playback-control requests that differ in speed
ControlSpeeds == {1, 2}
Positions == 0..MaxPos
Speeds == {1}
None == 0
NoChan == 0
DefaultSpeed == 1
DefaultReason == "Removed by teacher"

\* what the persistence layer resolves for a participant / an audio file
UserOf(p) == p
NameOf(p) == IF p = 1 THEN "A" ELSE "B"
IsTeacher(p) == p = 1
TitleOf(a) == a
DurationOf(a) == 10 * a

VARIABLES
  active,         \* ws_mgr.active: session_id -> (participant_id -> queue)
  SESSION_STATE,  \* session_id -> [connections, participants, playback]
  queues,         \* contents of every asyncio.Queue created so far
  lock,           \* SESSION_LOCK: "free" or the name of the holder
  ctl,            \* the control_audio_playback call suspended in its query
  waiters,        \* the calls suspended in SESSION_LOCK.acquire, oldest first
  last,           \* the operation that produced the current state
  nops            \* number of operations invoked so far

vars == <<active, SESSION_STATE, queues, lock, ctl, waiters, last, nops>>

\* ------------------------------------------------------- dict primitives
EmptyDict == <<>>

DictSet(d, k, v) == [x \in (DOMAIN d) \cup {k} |-> IF x = k THEN v ELSE d[x]]

DictPop(d, k) == [x \in (DOMAIN d) \ {k} |-> d[x]]

DictGet(d, k, default) == IF k \in DOMAIN d THEN d[k] ELSE default

DictUpdate(d, e) ==
  [x \in (DOMAIN d) \cup (DOMAIN e) |-> IF x \in DOMAIN e THEN e[x] ELSE d[x]]

SetDefault(d, k, v) == IF k \in DOMAIN d THEN d ELSE DictSet(d, k, v)

\* ------------------------------------------------------------- messages
Sentinel == [type |-> "None"]

SessionEndedMsg == [type |-> "session_ended"]

MutedMsg(p, m) == [type |-> "participant_muted", participant_id |-> p, is_muted |-> m]

KickedMsg(reason) == [type |-> "kicked", reason |-> reason]

ParticipantKickedMsg(p) == [type |-> "participant_kicked", participant_id |-> p]

ChatMsg(p) == [type |-> "chat", from |-> p]

\* ---------------------------------------------------------------- queues
\* asyncio.Queue.put_nowait: QueueFull when qsize() >= maxsize
QueueFull(q) == Len(q) >= QueueCap

\* a push that jumps the queue
PutNowait_AtHead(q, m) == <<m>> \o q

PutNowait(q, m) == Append(q, m)

\* a push that makes room by dropping the oldest message
TryPut_DropsOldest(q, m) == IF QueueFull(q) THEN Append(Tail(q), m) ELSE PutNowait(q, m)

\* try: q.put_nowait(m)  except QueueFull: (log only)
TryPut(q, m) == IF QueueFull(q) THEN q ELSE PutNowait(q, m)

\* try: q.put_nowait(m1); q.put_nowait(m2)  except QueueFull: pass
TryPut2(q, m1, m2) ==
  IF QueueFull(q) THEN q
  ELSE IF QueueFull(PutNowait(q, m1)) THEN PutNowait(q, m1)
  ELSE PutNowait(PutNowait(q, m1), m2)

\* ------------------------------------------------------- default records
NewPlayback ==
  [k \in {"audio_id", "status", "speed", "position", "title"} |->
     CASE k = "audio_id" -> None
       [] k = "status"   -> "stopped"
       [] k = "speed"    -> DefaultSpeed
       [] k = "position" -> 0
       [] k = "title"    -> None]

NewSessionState ==
  [connections |-> EmptyDict, participants |-> EmptyDict, playback |-> NewPlayback]

\* self.active.get(session_id, {})
ActiveOf(s) == DictGet(active, s, EmptyDict)

\* "async with SESSION_LOCK" enters at once when the lock is not held and no
\* earlier call is still queued for it; otherwise the call suspends
CanAcquire == lock = "free" /\ waiters = <<>>

NoOp == [op |-> "init", s |-> 0, p |-> 0]

Init ==
  /\ active = EmptyDict
  /\ SESSION_STATE = EmptyDict
  /\ queues = <<>>
  /\ lock = "free"
  /\ ctl = <<>>
  /\ waiters = <<>>
  /\ last = NoOp
  /\ nops = 0

\* --------------------------------------------------- connection lifecycle
\* an upsert that writes a fresh entry, forgetting the flags
ParticipantEntry_ResetsFlags(existing, user_id, name, is_teacher) ==
  [k \in {"user_id", "name", "is_muted", "raised_hand", "is_teacher"} |->
     CASE k = "user_id"     -> user_id
       [] k = "name"        -> name
       [] k = "is_muted"    -> FALSE
       [] k = "raised_hand" -> FALSE
       [] k = "is_teacher"  -> is_teacher]

ParticipantEntry(existing, user_id, name, is_teacher) ==
  [k \in {"user_id", "name", "is_muted", "raised_hand", "is_teacher"} |->
     CASE k = "user_id"     -> user_id
       [] k = "name"        -> name
       [] k = "is_muted"    -> DictGet(existing, "is_muted", FALSE)
       [] k = "raised_hand" -> DictGet(existing, "raised_hand", FALSE)
       [] k = "is_teacher"  -> is_teacher]

\* a registration that starts the session over when it already exists
ConnectState_ResetsSession(st, s, p, q, user_id, name, is_teacher) ==
  DictSet(st, s,
    [NewSessionState EXCEPT !.connections = DictSet(@, p, q),
                            !.participants =
                               DictSet(@, p, ParticipantEntry(EmptyDict, user_id, name, is_teacher))])

ConnectState(st, s, p, q, user_id, name, is_teacher) ==
  LET s0 == DictGet(st, s, NewSessionState)
      existing == DictGet(s0.participants, p, EmptyDict)
  IN DictSet(st, s,
       [s0 EXCEPT !.connections = DictSet(@, p, q),
                  !.participants =
                     DictSet(@, p, ParticipantEntry(existing, user_id, name, is_teacher))])

\* a registration that keeps the queue already registered for the participant
ConnectActive_KeepsOld(act, s, p, q) ==
  DictSet(act, s, SetDefault(DictGet(act, s, EmptyDict), p, q))

\* self.active.setdefault(session_id, {})[participant_id] = q
ConnectActive(act, s, p, q) == DictSet(act, s, DictSet(DictGet(act, s, EmptyDict), p, q))

\* how a connect found the participant: online, known but offline, or unknown
ConnectKind(s, p) ==
  IF p \in DOMAIN ActiveOf(s) THEN "replace"
  ELSE IF s \in DOMAIN SESSION_STATE /\ p \in DOMAIN SESSION_STATE[s].participants
       THEN "rejoin" ELSE "fresh"

Connect(s, p, user_id, name, is_teacher) ==
  /\ CanAcquire
  /\ Len(queues) < MaxChans
  /\ LET q == Len(queues) + 1 IN
       /\ queues' = Append(queues, <<>>)
       /\ active' = ConnectActive(active, s, p, q)
       /\ SESSION_STATE' = ConnectState(SESSION_STATE, s, p, q, user_id, name, is_teacher)
       /\ last' = [op |-> "connect", s |-> s, p |-> p, kind |-> ConnectKind(s, p)]
  /\ UNCHANGED <<lock, ctl, waiters>>

\* a disconnect that purges the roster entry as a kick does
DisconnectState_PurgesRoster(st, s, p) ==
  IF s \in DOMAIN st
  THEN [st EXCEPT ![s].connections = DictPop(@, p), ![s].participants = DictPop(@, p)]
  ELSE st

\* a disconnect that forgets the session state's connections table
DisconnectState_KeepsConnection(st, s, p) == st

DisconnectState(st, s, p) ==
  IF s \in DOMAIN st
  THEN [st EXCEPT ![s].connections = DictPop(@, p)]
  ELSE st

\* a pop that goes through setdefault and so registers the session
DisconnectActive_CreatesEntry(act, s, p) ==
  DictSet(act, s, DictPop(DictGet(act, s, EmptyDict), p))

\* a pop that leaves the queue registered
DisconnectActive_KeepsChannel(act, s, p) == act

\* self.active.get(session_id, {}).pop(participant_id, None)
DisconnectActive(act, s, p) ==
  IF s \in DOMAIN act THEN [act EXCEPT ![s] = DictPop(@, p)] ELSE act

Disconnect(s, p) ==
  /\ CanAcquire
  /\ active' = DisconnectActive(active, s, p)
  /\ SESSION_STATE' = DisconnectState(SESSION_STATE, s, p)
  /\ last' = [op |-> "disconnect", s |-> s, p |-> p, had |-> p \in DOMAIN ActiveOf(s)]
  /\ UNCHANGED <<queues, lock, ctl, waiters>>

\* ----------------------------------------------------------------- sending
SendPersonal(q, m) ==
  /\ q \in DOMAIN queues
  /\ queues' = [queues EXCEPT ![q] = TryPut(@, m)]
  /\ last' = [op |-> "send_personal", s |-> 0, p |-> 0, q |-> q, m |-> m,
               full |-> QueueFull(queues[q])]
  /\ UNCHANGED <<active, SESSION_STATE, lock, ctl, waiters>>

MinOf(S) == CHOOSE x \in S : \A y \in S : x <= y

\* a loop that the first QueueFull ends
RECURSIVE BroadcastLoop_StopsAtFull(_, _, _, _, _)
BroadcastLoop_StopsAtFull(qs, conns, todo, m, exclude) ==
  IF todo = {} THEN qs
  ELSE LET pid == MinOf(todo) IN
       IF pid \in exclude
       THEN BroadcastLoop_StopsAtFull(qs, conns, todo \ {pid}, m, exclude)
       ELSE IF QueueFull(qs[conns[pid]]) THEN qs
       ELSE BroadcastLoop_StopsAtFull([qs EXCEPT ![conns[pid]] = PutNowait(@, m)],
                                      conns, todo \ {pid}, m, exclude)

\* for pid, q in conns: skip the excluded, try put_nowait on the others
RECURSIVE BroadcastLoop(_, _, _, _, _)
BroadcastLoop(qs, conns, todo, m, exclude) ==
  IF todo = {} THEN qs
  ELSE LET pid == MinOf(todo) IN
       BroadcastLoop(
         IF pid \in exclude THEN qs ELSE [qs EXCEPT ![conns[pid]] = TryPut(@, m)],
         conns, todo \ {pid}, m, exclude)

\* a broadcast that forgets its exclude set
BroadcastQueues_IgnoresExclude(qs, act, s, m, exclude) ==
  LET conns == DictGet(act, s, EmptyDict) IN
    IF DOMAIN conns = {} THEN qs
    ELSE BroadcastLoop(qs, conns, DOMAIN conns, m, {})

\* ws_mgr.broadcast: the queues after the call (it touches nothing else)
BroadcastQueues(qs, act, s, m, exclude) ==
  LET conns == DictGet(act, s, EmptyDict) IN
    IF DOMAIN conns = {} THEN qs
    ELSE BroadcastLoop(qs, conns, DOMAIN conns, m, exclude)

\* the recipients for which the loop logs "Queue full"
BroadcastFull(qs, act, s, exclude) ==
  LET conns == DictGet(act, s, EmptyDict) IN
    {pid \in DOMAIN conns \ exclude : QueueFull(qs[conns[pid]])}

\* a broadcast that looks its session up with setdefault
Broadcast_RegistersSession(s, m, exclude) ==
  /\ queues' = BroadcastQueues(queues, active, s, m, exclude)
  /\ active' = SetDefault(active, s, EmptyDict)
  /\ last' = [op |-> "broadcast", s |-> s, p |-> 0, m |-> m, ex |-> exclude,
               dropped |-> BroadcastFull(queues, active, s, exclude)]
  /\ UNCHANGED <<SESSION_STATE, lock, ctl, waiters>>

Broadcast(s, m, exclude) ==
  /\ queues' = BroadcastQueues(queues, active, s, m, exclude)
  /\ last' = [op |-> "broadcast", s |-> s, p |-> 0, m |-> m, ex |-> exclude,
               dropped |-> BroadcastFull(queues, active, s, exclude)]
  /\ UNCHANGED <<active, SESSION_STATE, lock, ctl, waiters>>

\* for _, q in conns: try: put session_ended; put None  except QueueFull: pass
RECURSIVE CloseLoop(_, _, _)
CloseLoop(qs, conns, todo) ==
  IF todo = {} THEN qs
  ELSE LET pid == MinOf(todo) IN
       CloseLoop([qs EXCEPT ![conns[pid]] = TryPut2(@, SessionEndedMsg, Sentinel)],
                 conns, todo \ {pid})

CloseQueues(qs, act, s) ==
  LET conns == DictGet(act, s, EmptyDict) IN CloseLoop(qs, conns, DOMAIN conns)

CloseSession(s) ==
  /\ CanAcquire
  /\ queues' = CloseQueues(queues, active, s)
  /\ active' = DictPop(active, s)
  /\ SESSION_STATE' = DictPop(SESSION_STATE, s)
  /\ last' = [op |-> "close_session", s |-> s, p |-> 0,
               existed |-> s \in DOMAIN SESSION_STATE]
  /\ UNCHANGED <<lock, ctl, waiters>>

\* ------------------------------------------------------ participant actions
\* a mute that writes a new entry holding the flag alone
MuteState_ResetsEntry(st, s, p, mute) ==
  [st EXCEPT ![s].participants = DictSet(@, p, DictSet(EmptyDict, "is_muted", mute))]

\* SESSION_STATE[s]["participants"].setdefault(p, {})["is_muted"] = mute
MuteState(st, s, p, mute) ==
  [st EXCEPT ![s].participants =
     DictSet(@, p, DictSet(DictGet(@, p, EmptyDict), "is_muted", mute))]

\* a mute that writes the flag without taking SESSION_LOCK
MuteParticipant_NoLock(s, p, mute) ==
  /\ IF s \notin DOMAIN SESSION_STATE
     THEN UNCHANGED <<SESSION_STATE, queues>>
     ELSE /\ SESSION_STATE' = MuteState(SESSION_STATE, s, p, mute)
          /\ queues' = BroadcastQueues(queues, active, s, MutedMsg(p, mute), {})
  /\ last' = [op |-> "mute", s |-> s, p |-> p, mute |-> mute, m |-> MutedMsg(p, mute)]
  /\ UNCHANGED <<active, lock, ctl, waiters>>

MuteParticipant(s, p, mute) ==
  /\ CanAcquire
  /\ IF s \notin DOMAIN SESSION_STATE
     THEN UNCHANGED <<SESSION_STATE, queues>>
     ELSE /\ SESSION_STATE' = MuteState(SESSION_STATE, s, p, mute)
          /\ queues' = BroadcastQueues(queues, active, s, MutedMsg(p, mute), {})
  /\ last' = [op |-> "mute", s |-> s, p |-> p, mute |-> mute, m |-> MutedMsg(p, mute)]
  /\ UNCHANGED <<active, lock, ctl, waiters>>

\* a kick that keeps the roster entry, as disconnect_participant does
KickState_KeepsRoster(st, s, p) ==
  IF s \in DOMAIN st THEN [st EXCEPT ![s].connections = DictPop(@, p)] ELSE st

\* a kick that removes the participant from every session
KickState_AllSessions(st, s, p) ==
  [x \in DOMAIN st |->
     [st[x] EXCEPT !.connections = DictPop(@, p), !.participants = DictPop(@, p)]]

KickState(st, s, p) ==
  IF s \in DOMAIN st
  THEN [st EXCEPT ![s].connections = DictPop(@, p), ![s].participants = DictPop(@, p)]
  ELSE st

\* the queue popped from self.active (NoChan for Python None)
KickedQueue(act, s, p) == DictGet(DictGet(act, s, EmptyDict), p, NoChan)

\* reason or "Removed by teacher" ("" stands for a reason not given)
ReasonOr(reason) == IF reason = "" THEN DefaultReason ELSE reason

\* the roster entry the kick pops (the empty dict when there is none)
KickedEntry(st, s, p) ==
  IF s \in DOMAIN st THEN DictGet(st[s].participants, p, EmptyDict) ELSE EmptyDict

KickQueues(qs, act, s, p, reason) ==
  LET q == KickedQueue(act, s, p)
      act1 == DisconnectActive(act, s, p)
      qs1 == IF q # NoChan
             THEN [qs EXCEPT ![q] = TryPut2(@, KickedMsg(ReasonOr(reason)), Sentinel)]
             ELSE qs
  IN BroadcastQueues(qs1, act1, s, ParticipantKickedMsg(p), {})

\* a kick that leaves the kicked queue registered
KickParticipant_KeepsRegistered(s, p, reason) ==
  /\ CanAcquire
  /\ active' = active
  /\ SESSION_STATE' = KickState(SESSION_STATE, s, p)
  /\ queues' = KickQueues(queues, active, s, p, reason)
  /\ last' = [op |-> "kick", s |-> s, p |-> p, q |-> KickedQueue(active, s, p),
               reason |-> reason, entry |-> KickedEntry(SESSION_STATE, s, p)]
  /\ UNCHANGED <<lock, ctl, waiters>>

KickParticipant(s, p, reason) ==
  /\ CanAcquire
  /\ active' = DisconnectActive(active, s, p)
  /\ SESSION_STATE' = KickState(SESSION_STATE, s, p)
  /\ queues' = KickQueues(queues, active, s, p, reason)
  /\ last' = [op |-> "kick", s |-> s, p |-> p, q |-> KickedQueue(active, s, p),
               reason |-> reason, entry |-> KickedEntry(SESSION_STATE, s, p)]
  /\ UNCHANGED <<lock, ctl, waiters>>

\* {"type": "disconnected", "reason": reason or "Connection closed"}
DisconnectedMsg(reason) ==
  [type |-> "disconnected", reason |-> IF reason = "" THEN "Connection closed" ELSE reason]

\* disconnect_participant: pop the queue and the connections entry under the
\* lock, keep the roster entry, then put "disconnected" and the sentinel; no
\* broadcast
DisconnectParticipant(s, p, reason) ==
  /\ CanAcquire
  /\ active' = DisconnectActive(active, s, p)
  /\ SESSION_STATE' = DisconnectState(SESSION_STATE, s, p)
  /\ queues' = LET q == KickedQueue(active, s, p) IN
                 IF q # NoChan
                 THEN [queues EXCEPT ![q] = TryPut2(@, DisconnectedMsg(reason), Sentinel)]
                 ELSE queues
  /\ last' = [op |-> "disconnect_participant", s |-> s, p |-> p,
               q |-> KickedQueue(active, s, p), reason |-> reason]
  /\ UNCHANGED <<lock, ctl, waiters>>

\* session_ws "raise_hand" / "lower_hand": set the flag under the lock, broadcast.
\* Enabled when the roster entry exists; without it the assignment raises
\* KeyError and the connection's handler ends, which is not this action.
HandState(st, s, p, raised) == [st EXCEPT ![s].participants[p] = DictSet(@, "raised_hand", raised)]

HandMsg(p, raised) ==
  [type |-> IF raised THEN "hand_raised" ELSE "hand_lowered", participant_id |-> p]

RaiseHand(s, p, raised) ==
  /\ CanAcquire
  /\ s \in DOMAIN SESSION_STATE
  /\ p \in DOMAIN SESSION_STATE[s].participants
  /\ SESSION_STATE' = HandState(SESSION_STATE, s, p, raised)
  /\ queues' = BroadcastQueues(queues, active, s, HandMsg(p, raised), {})
  /\ last' = [op |-> "hand", s |-> s, p |-> p, m |-> HandMsg(p, raised)]
  /\ UNCHANGED <<active, lock, ctl, waiters>>

\* create_session: SESSION_STATE.setdefault(session_id, {...}) (no "title" key)
CreateSession(s) ==
  /\ CanAcquire
  /\ SESSION_STATE' = SetDefault(SESSION_STATE, s,
        [NewSessionState EXCEPT !.playback = DictPop(@, "title")])
  /\ last' = [op |-> "create_session", s |-> s, p |-> 0]
  /\ UNCHANGED <<active, queues, lock, ctl, waiters>>

\* ------------------------------------------ session_ws: teacher-only actions
\* The receive loop of session_ws for a handler whose locals are session_id = s,
\* participant_id = p and is_teacher = IsTeacher(p); a handler is in its loop
\* for a participant that is connected.  ws_mgr is the queue-based
\* manager of ws_manager.py (main.py imports it), so
\*   - send_personal(websocket, ...) calls put_nowait on a WebSocket, which has
\*     no such attribute: AttributeError, not caught by "except QueueFull";
\*   - an exception raised in the loop reaches "except Exception", which calls
\*     ws_mgr.disconnect(s, p) and broadcasts participant_left.
LeftMsg(p) == [type |-> "participant_left", participant_id |-> p]

SessionEndingMsg == [type |-> "session_ending"]

PermissionDeniedMsg == [type |-> "error", detail |-> "teacher permission required"]

\* the messages of the join sequence (main.py:1139-1153)
JoinedMsg(p) ==
  [type |-> "participant_joined", participant_id |-> p, user_id |-> UserOf(p),
   name |-> NameOf(p), is_teacher |-> IsTeacher(p)]

SnapshotMsg(st, s) ==
  [type |-> "session_state", participants |-> st[s].participants,
   playback |-> st[s].playback]

\* SESSION_STATE.setdefault(session_id, {...}); s["participants"].setdefault(p, {...})
WsJoinState(st, s, p) ==
  LET st1 == SetDefault(st, s, [NewSessionState EXCEPT !.playback = DictPop(@, "title")])
  IN [st1 EXCEPT ![s].participants =
        SetDefault(@, p, [k \in {"user_id", "is_muted", "raised_hand", "name"} |->
                            CASE k = "user_id"     -> UserOf(p)
                              [] k = "is_muted"    -> FALSE
                              [] k = "raised_hand" -> FALSE
                              [] k = "name"        -> NameOf(p)])]

\* session_ws from the roster entry to the receive loop.  The call
\* ws_mgr.connect(session_id, participant_id, websocket) gives three of the five
\* arguments that connect of ws_manager.py requires: TypeError before connect
\* runs, caught by "except Exception", which disconnects p and broadcasts
\* participant_left.  participant_joined and the snapshot are never reached.
WsJoin(s, p) ==
  /\ CanAcquire
  /\ active' = DisconnectActive(active, s, p)
  /\ SESSION_STATE' = DisconnectState(WsJoinState(SESSION_STATE, s, p), s, p)
  /\ queues' = BroadcastQueues(queues, active', s, LeftMsg(p), {})
  /\ last' = [op |-> "ws_join", s |-> s, p |-> p, had |-> p \in DOMAIN ActiveOf(s)]
  /\ UNCHANGED <<lock, ctl, waiters>>

TeacherOnlyTypes == {"mute_participant", "unmute_participant", "kick_participant", "end_session"}

\* does the branch for typ raise before it changes anything
WsRaises(st, s, p, typ, target) ==
  \/ ~IsTeacher(p)
  \/ /\ typ \in {"mute_participant", "unmute_participant"}
     /\ (s \notin DOMAIN st \/ target \notin DOMAIN st[s].participants)

WsTeacherAction(s, p, typ, target) ==
  /\ CanAcquire
  /\ p \in DOMAIN ActiveOf(s)
  /\ IF WsRaises(SESSION_STATE, s, p, typ, target)
     THEN \* except Exception: disconnect, then broadcast participant_left
          /\ active' = DisconnectActive(active, s, p)
          /\ SESSION_STATE' = DisconnectState(SESSION_STATE, s, p)
          /\ queues' = BroadcastQueues(queues, active', s, LeftMsg(p), {})
     ELSE CASE typ \in {"mute_participant", "unmute_participant"} ->
                 /\ SESSION_STATE' = [SESSION_STATE EXCEPT ![s].participants[target] =
                                         DictSet(@, "is_muted", typ = "mute_participant")]
                 /\ queues' = BroadcastQueues(queues, active, s,
                                  MutedMsg(target, typ = "mute_participant"), {})
                 /\ active' = active
            [] typ = "kick_participant" ->
                 \* ws_mgr.kick_participant, then participant_kicked once more
                 /\ active' = DisconnectActive(active, s, target)
                 /\ SESSION_STATE' = KickState(SESSION_STATE, s, target)
                 /\ queues' = BroadcastQueues(
                                  KickQueues(queues, active, s, target, DefaultReason),
                                  active', s, ParticipantKickedMsg(target), {})
            [] typ = "end_session" ->
                 \* broadcast session_ending, close_session, leave the loop
                 /\ queues' = CloseQueues(
                                  BroadcastQueues(queues, active, s, SessionEndingMsg, {}),
                                  active, s)
                 /\ active' = DictPop(active, s)
                 /\ SESSION_STATE' = DictPop(SESSION_STATE, s)
  /\ last' = [op |-> "ws", s |-> s, p |-> p, typ |-> typ, target |-> target,
               raised |-> WsRaises(SESSION_STATE, s, p, typ, target)]
  /\ UNCHANGED <<lock, ctl, waiters>>

\* --------------------------------------------------------- audio playback
AudioSelectedMsg(a, title) == [type |-> "audio_selected", audio_id |-> a, title |-> title]

AudioPlayMsg(a, speed, pos) ==
  [type |-> "audio_play", audio_id |-> a, speed |-> speed, position |-> pos]

AudioPauseMsg(pos) == [type |-> "audio_pause", position |-> pos]

\* the message control_audio_playback broadcasts: f"audio_{action}" and all fields
ControlMsg(action, a, speed, pos) ==
  [type |-> IF action = "play" THEN "audio_play"
            ELSE IF action = "pause" THEN "audio_pause" ELSE "audio_seek",
   audio_id |-> a, speed |-> speed, position |-> pos,
   title |-> TitleOf(a), duration |-> DurationOf(a)]

\* a select that leaves status and position alone
SelectState_KeepsStatus(st, s, a, title) ==
  LET s0 == DictGet(st, s, [connections |-> EmptyDict, participants |-> EmptyDict,
                            playback |-> EmptyDict])
  IN DictSet(st, s,
       [s0 EXCEPT !.playback = DictSet(DictSet(@, "audio_id", a), "title", title)])

\* SESSION_STATE.setdefault(s, {...}); s["playback"].update({...})
SelectState(st, s, a, title) ==
  LET s0 == DictGet(st, s, [connections |-> EmptyDict, participants |-> EmptyDict,
                            playback |-> EmptyDict])
  IN DictSet(st, s,
       [s0 EXCEPT !.playback =
          DictSet(DictSet(DictSet(DictSet(@, "audio_id", a), "title", title),
                          "status", "stopped"), "position", 0)])

AudioSelect(s, a, title) ==
  /\ CanAcquire
  /\ SESSION_STATE' = SelectState(SESSION_STATE, s, a, title)
  /\ queues' = BroadcastQueues(queues, active, s, AudioSelectedMsg(a, title), {})
  /\ last' = [op |-> "select", s |-> s, p |-> 0, m |-> AudioSelectedMsg(a, title)]
  /\ UNCHANGED <<active, lock, ctl, waiters>>

PlayState(st, s, a, speed, pos) ==
  [st EXCEPT ![s].playback =
     DictSet(DictSet(DictSet(DictSet(@, "status", "playing"), "audio_id", a),
                     "speed", speed), "position", pos)]

\* ws_mgr.audio_play
AudioPlay(s, a, speed, pos) ==
  /\ IF s \notin DOMAIN SESSION_STATE
     THEN UNCHANGED <<SESSION_STATE, queues>>
     ELSE /\ SESSION_STATE' = PlayState(SESSION_STATE, s, a, speed, pos)
          /\ queues' = BroadcastQueues(queues, active, s, AudioPlayMsg(a, speed, pos), {})
  /\ UNCHANGED <<active, lock, ctl, waiters>>

\* a lookup that answers with the first audio file when nothing is selected
StoredAudio_DefaultsToFirst(st, s) ==
  IF s \in DOMAIN st /\ DictGet(st[s].playback, "audio_id", None) # None
  THEN st[s].playback["audio_id"] ELSE 1

\* the audio_id rest_play_audio resolves when the form gives none
StoredAudio(st, s) ==
  IF s \in DOMAIN st THEN DictGet(st[s].playback, "audio_id", None) ELSE None

\* rest_play_audio: a = None stands for an omitted audio_id
RestPlayAudio(s, a, speed, pos) ==
  /\ CanAcquire
  /\ LET audio == IF a = None THEN StoredAudio(SESSION_STATE, s) ELSE a IN
       IF audio = None
       THEN /\ last' = [op |-> "play_rejected", s |-> s, p |-> 0, a |-> a]
            /\ UNCHANGED <<active, SESSION_STATE, queues, lock, ctl, waiters>>
       ELSE /\ AudioPlay(s, audio, speed, pos)
            /\ last' = [op |-> "play", s |-> s, p |-> 0, a |-> a,
                         m |-> AudioPlayMsg(audio, speed, pos)]

\* a pause that stores the position only
PauseState_KeepsStatus(st, s, pos) ==
  [st EXCEPT ![s].playback = DictSet(@, "position", pos)]

PauseState(st, s, pos) ==
  [st EXCEPT ![s].playback = DictSet(DictSet(@, "status", "paused"), "position", pos)]

\* ws_mgr.audio_pause
AudioPause(s, pos) ==
  /\ IF s \notin DOMAIN SESSION_STATE
     THEN UNCHANGED <<SESSION_STATE, queues>>
     ELSE /\ SESSION_STATE' = PauseState(SESSION_STATE, s, pos)
          /\ queues' = BroadcastQueues(queues, active, s, AudioPauseMsg(pos), {})
  /\ UNCHANGED <<active, lock, ctl, waiters>>

\* rest_pause_audio: ws_mgr.audio_pause(session_id), position defaulted to 0.0
RestPauseAudio(s) ==
  /\ CanAcquire
  /\ AudioPause(s, 0)
  /\ last' = [op |-> "pause", s |-> s, p |-> 0, m |-> AudioPauseMsg(0)]

\* control_audio_playback up to its database query: the lock is taken, the
\* session and the audio id are checked, and the call suspends holding the lock
ControlBegin(s, action, a, speed, pos) ==
  /\ CanAcquire
  /\ ctl = <<>>
  /\ LET audio == IF a = None THEN StoredAudio(SESSION_STATE, s) ELSE a IN
       IF s \notin DOMAIN SESSION_STATE \/ audio = None
       THEN /\ last' = [op |-> "control_rejected", s |-> s, p |-> 0, a |-> a]
            /\ UNCHANGED <<lock, ctl>>
       ELSE /\ lock' = "control"
            /\ ctl' = [s |-> s, action |-> action, audio_id |-> audio,
                       speed |-> speed, position |-> pos]
            /\ last' = [op |-> "control_query", s |-> s, p |-> 0, a |-> a]
  /\ UNCHANGED <<active, SESSION_STATE, queues, waiters>>

\* a handler that broadcasts the requested action as it came
ControlAction_KeepsSeek(st, c) == c.action

\* the action the handler reports and broadcasts: a seek while playing is a play
ControlAction(st, c) ==
  IF c.action = "seek" /\ DictGet(st[c.s].playback, "status", "") = "playing"
  THEN "play" ELSE c.action

ControlState(st, c) ==
  CASE c.action = "play" ->
         [st EXCEPT ![c.s].playback =
            DictUpdate(@, [k \in {"audio_id", "status", "speed", "position", "title", "duration"} |->
               CASE k = "audio_id" -> c.audio_id
                 [] k = "status"   -> "playing"
                 [] k = "speed"    -> c.speed
                 [] k = "position" -> c.position
                 [] k = "title"    -> TitleOf(c.audio_id)
                 [] k = "duration" -> DurationOf(c.audio_id)])]
    [] c.action = "pause" ->
         [st EXCEPT ![c.s].playback =
            DictSet(DictSet(@, "status", "paused"), "position", c.position)]
    [] c.action = "seek" ->
         [st EXCEPT ![c.s].playback = DictSet(@, "position", c.position)]
    [] OTHER -> st

\* a handler that keeps the lock when it rejects the request
ControlFinish_HoldsOnReject(found) ==
  /\ ctl # <<>>
  /\ ctl' = <<>>
  /\ IF ~found \/ ctl.action \notin {"play", "pause", "seek"}
     THEN /\ lock' = lock
          /\ last' = [op |-> "control_rejected", s |-> ctl.s, p |-> 0, a |-> ctl.audio_id]
          /\ UNCHANGED <<SESSION_STATE, queues>>
     ELSE /\ lock' = "free"
          /\ SESSION_STATE' = ControlState(SESSION_STATE, ctl)
          /\ queues' = BroadcastQueues(queues, active, ctl.s,
                          ControlMsg(ControlAction(SESSION_STATE', ctl), ctl.audio_id,
                                     ctl.speed, ctl.position), {})
          /\ last' = [op |-> "control", s |-> ctl.s, p |-> 0, action |-> ctl.action,
                      was |-> DictGet(SESSION_STATE[ctl.s].playback, "status", "")]
  /\ UNCHANGED <<active, waiters>>

\* control_audio_playback from the query's answer to the return
ControlFinish(found) ==
  /\ ctl # <<>>
  /\ lock' = "free"
  /\ ctl' = <<>>
  /\ IF ~found \/ ctl.action \notin {"play", "pause", "seek"}
     THEN /\ last' = [op |-> "control_rejected", s |-> ctl.s, p |-> 0, a |-> ctl.audio_id]
          /\ UNCHANGED <<SESSION_STATE, queues>>
     ELSE /\ SESSION_STATE' = ControlState(SESSION_STATE, ctl)
          /\ queues' = BroadcastQueues(queues, active, ctl.s,
                          ControlMsg(ControlAction(SESSION_STATE', ctl), ctl.audio_id,
                                     ctl.speed, ctl.position), {})
          /\ last' = [op |-> "control", s |-> ctl.s, p |-> 0, action |-> ctl.action,
                      was |-> DictGet(SESSION_STATE[ctl.s].playback, "status", "")]
  /\ UNCHANGED <<active, waiters>>

\* ------------------------------------------------ waiting for SESSION_LOCK
\* SESSION_LOCK is an asyncio.Lock: a call that finds it held, or finds earlier
\* calls still queued, suspends in "async with SESSION_LOCK" and is resumed in
\* arrival order.  A waiter is the suspended call: op names the statement it is
\* suspended at, given is the audio_id of the request (None when omitted), a is
\* the audio_id the call will use, id numbers the request.
Waiter(op, s, given, a, speed, pos, id) ==
  [op |-> op, s |-> s, given |-> given, a |-> a, speed |-> speed, pos |-> pos, id |-> id]

\* rest_select_audio: ws_mgr.audio_select suspends at its "async with"
SelectWaits(s, a) ==
  /\ ~CanAcquire
  /\ waiters' = Append(waiters,
                   Waiter("audio_select", s, a, a, DefaultSpeed, 0, nops + 1))
  /\ last' = [op |-> "wait", s |-> s, p |-> 0, id |-> nops + 1]
  /\ UNCHANGED <<active, SESSION_STATE, queues, lock, ctl>>

\* rest_play_audio: with audio_id omitted it suspends at its own "async with"
\* (the read of the selection); with audio_id given it goes to ws_mgr.audio_play
\* and suspends there
PlayWaits(s, a, speed, pos) ==
  /\ ~CanAcquire
  /\ waiters' = Append(waiters,
                   Waiter(IF a = None THEN "rest_play_audio" ELSE "audio_play",
                          s, a, a, speed, pos, nops + 1))
  /\ last' = [op |-> "wait", s |-> s, p |-> 0, id |-> nops + 1]
  /\ UNCHANGED <<active, SESSION_STATE, queues, lock, ctl>>

\* kick_participant suspends at its "async with"
KickWaits(s, p, reason) ==
  /\ ~CanAcquire
  /\ waiters' = Append(waiters, [op |-> "kick_participant", s |-> s, p |-> p,
                                  reason |-> reason, id |-> nops + 1])
  /\ last' = [op |-> "wait", s |-> s, p |-> p, id |-> nops + 1]
  /\ UNCHANGED <<active, SESSION_STATE, queues, lock, ctl>>

\* close_session suspends at its "async with"
CloseWaits(s) ==
  /\ ~CanAcquire
  /\ waiters' = Append(waiters, [op |-> "close_session", s |-> s, id |-> nops + 1])
  /\ last' = [op |-> "wait", s |-> s, p |-> 0, id |-> nops + 1]
  /\ UNCHANGED <<active, SESSION_STATE, queues, lock, ctl>>

\* control_audio_playback suspends at its "async with"
ControlWaits(s, action, a, speed, pos) ==
  /\ ~CanAcquire
  /\ waiters' = Append(waiters,
                   [op |-> "control_audio_playback", s |-> s, action |-> action,
                    given |-> a, a |-> a, speed |-> speed, pos |-> pos, id |-> nops + 1])
  /\ last' = [op |-> "wait", s |-> s, p |-> 0, id |-> nops + 1]
  /\ UNCHANGED <<active, SESSION_STATE, queues, lock, ctl>>

\* The oldest waiter is resumed once the lock is released and runs to its next
\* suspension:
\*   kick_participant, close_session
\*                             the whole method, as when it is not contended;
\*   control_audio_playback    takes the lock, checks the session and the
\*                             audio id, and suspends in its query holding
\*                             the lock (or is rejected and releases it);
\*   audio_select, audio_play  the locked update, then the broadcast;
\*   rest_play_audio           reads the selection under the lock, releases it,
\*                             answers 400 when nothing is selected, else calls
\*                             ws_mgr.audio_play, whose "async with" enters at
\*                             once when nobody else waits and suspends behind
\*                             the other waiters when somebody does.
WaiterRuns ==
  /\ lock = "free"
  /\ waiters # <<>>
  /\ LET w == Head(waiters)
         rest == Tail(waiters)
         audio == IF w.op = "rest_play_audio" \/ w.a = None
                  THEN StoredAudio(SESSION_STATE, w.s) ELSE w.a
         queries == /\ w.op = "control_audio_playback"
                    /\ w.s \in DOMAIN SESSION_STATE
                    /\ audio # None
     IN CASE w.op = "control_audio_playback" ->
               /\ waiters' = rest
               /\ IF queries
                  THEN /\ lock' = "control"
                       /\ ctl' = [s |-> w.s, action |-> w.action, audio_id |-> audio,
                                  speed |-> w.speed, position |-> w.pos]
                       /\ last' = [op |-> "control_query", s |-> w.s, p |-> 0,
                                    id |-> w.id, a |-> w.given]
                  ELSE /\ last' = [op |-> "control_rejected", s |-> w.s, p |-> 0,
                                    id |-> w.id, a |-> w.given]
                       /\ UNCHANGED <<lock, ctl>>
               /\ UNCHANGED <<active, SESSION_STATE, queues>>
          [] w.op = "kick_participant" ->
               /\ UNCHANGED <<lock, ctl>>
               /\ active' = DisconnectActive(active, w.s, w.p)
               /\ SESSION_STATE' = KickState(SESSION_STATE, w.s, w.p)
               /\ queues' = KickQueues(queues, active, w.s, w.p, w.reason)
               /\ waiters' = rest
               /\ last' = [op |-> "kick", s |-> w.s, p |-> w.p, id |-> w.id,
                            q |-> KickedQueue(active, w.s, w.p), reason |-> w.reason,
                            entry |-> KickedEntry(SESSION_STATE, w.s, w.p)]
          [] w.op = "close_session" ->
               /\ UNCHANGED <<lock, ctl>>
               /\ queues' = CloseQueues(queues, active, w.s)
               /\ active' = DictPop(active, w.s)
               /\ SESSION_STATE' = DictPop(SESSION_STATE, w.s)
               /\ waiters' = rest
               /\ last' = [op |-> "close_session", s |-> w.s, p |-> 0, id |-> w.id,
                            existed |-> w.s \in DOMAIN SESSION_STATE]
          [] w.op = "audio_select" ->
               /\ UNCHANGED <<lock, ctl>>
               /\ SESSION_STATE' = SelectState(SESSION_STATE, w.s, w.a, TitleOf(w.a))
               /\ queues' = BroadcastQueues(queues, active, w.s,
                                            AudioSelectedMsg(w.a, TitleOf(w.a)), {})
               /\ waiters' = rest
               /\ last' = [op |-> "select", s |-> w.s, p |-> 0, id |-> w.id,
                            m |-> AudioSelectedMsg(w.a, TitleOf(w.a))]
               /\ active' = active
          [] w.op = "rest_play_audio" /\ audio = None ->
               /\ UNCHANGED <<lock, ctl>>
               /\ waiters' = rest
               /\ last' = [op |-> "play_rejected", s |-> w.s, p |-> 0, id |-> w.id,
                            a |-> w.given]
               /\ UNCHANGED <<active, SESSION_STATE, queues>>
          [] w.op = "rest_play_audio" /\ audio # None /\ rest # <<>> ->
               /\ UNCHANGED <<lock, ctl>>
               /\ waiters' = Append(rest, [w EXCEPT !.op = "audio_play", !.a = audio])
               /\ last' = [op |-> "play_read", s |-> w.s, p |-> 0, id |-> w.id,
                            a |-> w.given]
               /\ UNCHANGED <<active, SESSION_STATE, queues>>
          [] OTHER ->
               /\ IF w.s \notin DOMAIN SESSION_STATE
                  THEN UNCHANGED <<SESSION_STATE, queues>>
                  ELSE /\ SESSION_STATE' = PlayState(SESSION_STATE, w.s, audio, w.speed, w.pos)
                       /\ queues' = BroadcastQueues(queues, active, w.s,
                                        AudioPlayMsg(audio, w.speed, w.pos), {})
               /\ waiters' = rest
               /\ last' = [op |-> "play", s |-> w.s, p |-> 0, id |-> w.id, a |-> w.given,
                            m |-> AudioPlayMsg(audio, w.speed, w.pos)]
               /\ active' = active
               /\ UNCHANGED <<lock, ctl>>

\* ------------------------------------------------------------ specifications
\* one more operation is invoked
Tick == nops < MaxOps /\ nops' = nops + 1

ConnectStep ==
  Tick /\ \E s \in SessionIds, p \in Pids : Connect(s, p, UserOf(p), NameOf(p), IsTeacher(p))

DisconnectStep ==
  Tick /\ \E s \in SessionIds, p \in Pids : Disconnect(s, p)

SendStep ==
  Tick /\ \E q \in DOMAIN queues : SendPersonal(q, ChatMsg(1))

BroadcastStep ==
  Tick /\ \E s \in SessionIds \cup OtherSessions, ex \in SUBSET Pids :
     Broadcast(s, ChatMsg(1), ex)

CloseStep ==
  Tick /\ \E s \in SessionIds : CloseSession(s)

CreateStep ==
  Tick /\ \E s \in SessionIds : CreateSession(s)

MuteStep ==
  Tick /\ \E s \in SessionIds, p \in Pids, m \in BOOLEAN : MuteParticipant(s, p, m)

KickStep ==
  Tick /\ \E s \in SessionIds, p \in Pids, r \in {"", "spam"} : KickParticipant(s, p, r)

HandStep ==
  Tick /\ \E s \in SessionIds, p \in Pids, h \in BOOLEAN : RaiseHand(s, p, h)

SelectStep ==
  Tick /\ \E s \in SessionIds, a \in AudioIds : AudioSelect(s, a, TitleOf(a))

PlayStep ==
  Tick /\ \E s \in SessionIds, a \in AudioIds \cup {None}, sp \in Speeds, pos \in Positions :
     RestPlayAudio(s, a, sp, pos)

PauseStep ==
  Tick /\ \E s \in SessionIds : RestPauseAudio(s)

ControlBeginStep ==
  Tick /\ \E s \in SessionIds, act \in {"play", "pause", "seek", "stop"},
     a \in AudioIds \cup {None}, sp \in Speeds, pos \in Positions :
       ControlBegin(s, act, a, sp, pos)

WsJoinStep ==
  Tick /\ \E s \in SessionIds, p \in Pids : WsJoin(s, p)

WsTeacherStep ==
  Tick /\ \E s \in SessionIds, p \in Pids, typ \in TeacherOnlyTypes, target \in Pids :
     WsTeacherAction(s, p, typ, target)

\* the second half of an operation already counted
ControlFinishStep ==
  nops' = nops /\ \E found \in BOOLEAN : ControlFinish(found)

\* requests that arrive while the lock is held or others are queued for it
SelectWaitsStep ==
  Tick /\ \E s \in SessionIds, a \in RaceAudioIds : SelectWaits(s, a)

PlayWaitsStep ==
  Tick /\ \E s \in SessionIds, a \in RaceAudioIds \cup {None} :
     PlayWaits(s, a, DefaultSpeed, 0)

\* the continuation of a request already counted
WaiterRunsStep ==
  nops' = nops /\ WaiterRuns

\* playback-control requests over more than one audio file and speed
ControlAnyStep ==
  Tick /\ \E s \in SessionIds, act \in {"play", "seek"},
     a \in RaceAudioIds \cup {None}, sp \in ControlSpeeds, pos \in Positions :
       ControlBegin(s, act, a, sp, pos)

DisconnectParticipantStep ==
  Tick /\ \E s \in SessionIds, p \in Pids, r \in {"", "idle"} : DisconnectParticipant(s, p, r)

\* the hub's calls on either of two sessions
ConnectAnyStep ==
  Tick /\ \E s \in BothSessions, p \in Pids :
     Connect(s, p, UserOf(p), NameOf(p), IsTeacher(p))

DisconnectAnyStep ==
  Tick /\ \E s \in BothSessions, p \in Pids : Disconnect(s, p)

KickAnyStep ==
  Tick /\ \E s \in BothSessions, p \in Pids : KickParticipant(s, p, "")

MuteAnyStep ==
  Tick /\ \E s \in BothSessions, p \in Pids : MuteParticipant(s, p, TRUE)

PlayAnyStep ==
  Tick /\ \E s \in BothSessions, a \in AudioIds : RestPlayAudio(s, a, DefaultSpeed, 0)

BroadcastAnyStep ==
  Tick /\ \E s \in BothSessions : Broadcast(s, ChatMsg(1), {})

CloseAnyStep ==
  Tick /\ \E s \in BothSessions : CloseSession(s)

\* the teacher removes the student (participant 2) while the lock is taken
KickWaitsStep ==
  Tick /\ \E s \in SessionIds : KickWaits(s, 2, "")

CloseWaitsStep ==
  Tick /\ \E s \in SessionIds : CloseWaits(s)

\* playback-control requests that differ in their outcome only: a play, and
\* an action the handler rejects after its query
ControlHoldsStep ==
  Tick /\ \E s \in SessionIds, act \in {"play", "stop"}, a \in AudioIds :
     ControlBegin(s, act, a, DefaultSpeed, 0)

\* a queued play request: rejected when the session is gone by the time it
\* gets the lock, suspended in its query otherwise
ControlWaitsStep ==
  Tick /\ \E s \in SessionIds, a \in AudioIds :
     ControlWaits(s, "play", a, DefaultSpeed, 0)

Next ==
  \/ CreateStep
  \/ ConnectStep
  \/ DisconnectStep
  \/ SendStep
  \/ BroadcastStep
  \/ CloseStep
  \/ MuteStep
  \/ KickStep
  \/ HandStep
  \/ SelectStep
  \/ PlayStep
  \/ PauseStep
  \/ ControlBeginStep
  \/ ControlFinishStep
  \/ WsTeacherStep
  \/ WsJoinStep
  \/ SelectWaitsStep
  \/ PlayWaitsStep
  \/ WaiterRunsStep
  \/ ControlAnyStep
  \/ DisconnectParticipantStep
  \/ ConnectAnyStep
  \/ DisconnectAnyStep
  \/ KickAnyStep
  \/ MuteAnyStep
  \/ PlayAnyStep
  \/ BroadcastAnyStep
  \/ CloseAnyStep
  \/ KickWaitsStep
  \/ CloseWaitsStep
  \/ ControlHoldsStep
  \/ ControlWaitsStep

Spec == Init /\ [][Next]_vars

\* connection lifecycle and delivery
NextDelivery ==
  \/ ConnectStep
  \/ DisconnectStep
  \/ SendStep
  \/ BroadcastStep
  \/ CloseStep

SpecDelivery == Init /\ [][NextDelivery]_vars

\* the same calls under an event loop that runs every call that is ready
SpecDeliveryFair == Init /\ [][NextDelivery]_vars /\ WF_vars(NextDelivery)

\* roster: connect, disconnect, kick and the flag-changing actions
NextRoster ==
  \/ CreateStep
  \/ ConnectStep
  \/ DisconnectStep
  \/ MuteStep
  \/ KickStep
  \/ HandStep

SpecRoster == Init /\ [][NextRoster]_vars

\* playback state machine, observed by the connected clients
NextPlayback ==
  \/ CreateStep
  \/ ConnectStep
  \/ SelectStep
  \/ PlayStep
  \/ PauseStep
  \/ ControlBeginStep
  \/ ControlFinishStep

SpecPlayback == Init /\ [][NextPlayback]_vars

\* roster and playback calls of one session side by side
NextOrder ==
  \/ CreateStep
  \/ ConnectStep
  \/ DisconnectStep
  \/ MuteStep
  \/ PlayStep
  \/ PauseStep

SpecOrder == Init /\ [][NextOrder]_vars

\* clients connected to the hub whose handlers receive teacher-only actions
NextWs ==
  \/ ConnectStep
  \/ DisconnectStep
  \/ WsJoinStep
  \/ WsTeacherStep

SpecWs == Init /\ [][NextWs]_vars

\* roster and registration calls next to a playback-control call that holds
\* the lock over its query
NextLock ==
  \/ ConnectStep
  \/ DisconnectStep
  \/ MuteStep
  \/ ControlBeginStep
  \/ ControlFinishStep

SpecLock == Init /\ [][NextLock]_vars

\* playback requests queued on the lock behind a playback-control call
NextRace ==
  \/ ConnectStep
  \/ SelectStep
  \/ ControlBeginStep
  \/ ControlFinishStep
  \/ SelectWaitsStep
  \/ PlayWaitsStep
  \/ WaiterRunsStep

SpecRace == Init /\ [][NextRace]_vars

\* playback-control requests that change the audio file and the speed
NextSeek ==
  \/ ConnectStep
  \/ ControlAnyStep
  \/ ControlFinishStep

SpecSeek == Init /\ [][NextSeek]_vars

\* the calls that close a channel, next to broadcasts
NextClosing ==
  \/ ConnectStep
  \/ DisconnectStep
  \/ BroadcastStep
  \/ KickStep
  \/ DisconnectParticipantStep
  \/ CloseStep

SpecClosing == Init /\ [][NextClosing]_vars

\* two sessions driven side by side
NextIsolation ==
  \/ ConnectAnyStep
  \/ DisconnectAnyStep
  \/ KickAnyStep
  \/ MuteAnyStep
  \/ PlayAnyStep
  \/ BroadcastAnyStep
  \/ CloseAnyStep

SpecIsolation == Init /\ [][NextIsolation]_vars

\* calls that queue on the lock behind a playback-control call.  The event
\* loop resumes a call whose wait is over, and the database answers the query.
NextQueue ==
  \/ ConnectStep
  \/ ControlHoldsStep
  \/ ControlFinishStep
  \/ KickWaitsStep
  \/ CloseWaitsStep
  \/ PlayWaitsStep
  \/ ControlWaitsStep
  \/ WaiterRunsStep

SpecQueueFair ==
  /\ Init
  /\ [][NextQueue]_vars
  /\ WF_vars(ControlFinishStep)
  /\ WF_vars(WaiterRunsStep)

\* ------------------------------------------------------------------ claims
\* helpers of the statements below
Roster(st, s) == IF s \in DOMAIN st THEN st[s].participants ELSE EmptyDict

Connections(st, s) == IF s \in DOMAIN st THEN st[s].connections ELSE EmptyDict

Closed(q) == Len(q) > 0 /\ q[Len(q)] = Sentinel

Registered(act) == {act[s][p] : s \in DOMAIN act, p \in UNION {DOMAIN act[x] : x \in DOMAIN act}}

\* C1: after close_session(S), S is in neither table and every channel that
\* was registered for S when it ran ends with the terminal sentinel, whatever
\* the channel held before.
C1_CloseSessionClosesEveryChannel ==
  [][last'.op = "close_session" =>
       /\ last'.s \notin DOMAIN SESSION_STATE'
       /\ last'.s \notin DOMAIN active'
       /\ \A p \in DOMAIN ActiveOf(last'.s) :
            Closed(queues'[active[last'.s][p]])]_vars

\* C2: mute(S,P,m) for a P with no roster entry in S changes nothing: no
\* roster entry appears and no message is enqueued.
C2_MuteOfUnknownParticipantIsNoOp ==
  [][(last'.op = "mute" /\ last'.p \notin DOMAIN Roster(SESSION_STATE, last'.s)) =>
       /\ SESSION_STATE' = SESSION_STATE
       /\ active' = active
       /\ queues' = queues]_vars

\* C3: in every state and every session, a playback status of playing or
\* paused comes with an audio_id that is not None.
C3_PlayingOrPausedHasAudio ==
  \A s \in DOMAIN SESSION_STATE :
     DictGet(SESSION_STATE[s].playback, "status", "stopped") \in {"playing", "paused"}
       => DictGet(SESSION_STATE[s].playback, "audio_id", None) # None

\* C4: broadcast(S, M, exclude=E) appends M exactly once to the queue of every
\* participant registered for S at the call that is not in E and whose queue
\* has room, and leaves the queue of every participant in E as it was.
C4_BroadcastDeliversOnceExceptExcluded ==
  [][last'.op = "broadcast" =>
       \A p \in DOMAIN ActiveOf(last'.s) :
          LET q == active[last'.s][p] IN
            IF p \in last'.ex
            THEN queues'[q] = queues[q]
            ELSE Len(queues[q]) < QueueCap => queues'[q] = Append(queues[q], last'.m)]_vars

\* C4 happens: a broadcast reached one registered participant and skipped an
\* excluded registered one
C4_Witness ==
  /\ last.op = "broadcast"
  /\ \E p \in DOMAIN ActiveOf(last.s) \cap last.ex, r \in DOMAIN ActiveOf(last.s) \ last.ex :
       /\ queues[active[last.s][p]] = <<>>
       /\ queues[active[last.s][r]] = <<last.m>>

\* C5: disconnect(S,P) of a participant with a roster entry, as after
\* connect(S,P,...), keeps that entry with every field as it was and leaves no
\* channel registered for P in the connection map or in the session state.
C5_DisconnectKeepsRosterDropsChannel ==
  [][(last'.op = "disconnect" /\ last'.p \in DOMAIN Roster(SESSION_STATE, last'.s)) =>
       /\ last'.p \in DOMAIN Roster(SESSION_STATE', last'.s)
       /\ Roster(SESSION_STATE', last'.s)[last'.p] = Roster(SESSION_STATE, last'.s)[last'.p]
       /\ last'.p \notin DOMAIN DictGet(active', last'.s, EmptyDict)
       /\ last'.p \notin DOMAIN Connections(SESSION_STATE', last'.s)]_vars

\* C5 happens: a participant that connect registered (its entry carries the
\* user_id only connect writes, and a queue was made) is now disconnected
C5_Witness ==
  /\ last.op = "disconnect"
  /\ last.p \in DOMAIN Roster(SESSION_STATE, last.s)
  /\ "user_id" \in DOMAIN Roster(SESSION_STATE, last.s)[last.p]
  /\ last.p \notin DOMAIN ActiveOf(last.s)
  /\ Len(queues) = 1
  /\ nops = 2

\* existing.get(flag, False)
FlagOf(entry, flag) == DictGet(entry, flag, FALSE)

\* C6: the flags a roster entry holds go unchanged through disconnect(S,P) and
\* through a later connect(S,P,...): the entry after the connect has the
\* is_muted and raised_hand it had before, for every combination of the two.
C6_ReconnectKeepsFlags ==
  [][(last'.op \in {"disconnect", "connect"}
        /\ last'.p \in DOMAIN Roster(SESSION_STATE, last'.s)) =>
       /\ last'.p \in DOMAIN Roster(SESSION_STATE', last'.s)
       /\ \A flag \in {"is_muted", "raised_hand"} :
            FlagOf(Roster(SESSION_STATE', last'.s)[last'.p], flag)
              = FlagOf(Roster(SESSION_STATE, last'.s)[last'.p], flag)]_vars

\* C6 happens: a participant known but offline has rejoined, muted and with
\* the hand raised
C6_Witness ==
  /\ last.op = "connect"
  /\ last.kind = "rejoin"
  /\ "user_id" \in DOMAIN Roster(SESSION_STATE, last.s)[last.p]
  /\ Roster(SESSION_STATE, last.s)[last.p]["is_muted"]
  /\ Roster(SESSION_STATE, last.s)[last.p]["raised_hand"]
  /\ Len(queues) = 2

\* C7: no queue ever holds more than its capacity, and a push by
\* send_personal or by a broadcast onto a full queue leaves that queue's
\* contents as they were: the new message is the one dropped.
C7_FullQueueDropsNewMessage ==
  [][/\ \A q \in DOMAIN queues' : Len(queues'[q]) <= QueueCap
     /\ last'.op \in {"send_personal", "broadcast"} =>
          \A q \in DOMAIN queues : Len(queues[q]) >= QueueCap => queues'[q] = queues[q]]_vars

\* C7 happens: send_personal pushed onto a full queue
C7_Witness ==
  /\ last.op = "send_personal"
  /\ last.full
  /\ Len(queues[last.q]) = QueueCap

\* C8: a seek while playing stores the position, keeps status playing and the
\* audio_id, and appends exactly one message, of type audio_play, to every
\* registered queue with room; a seek while paused stores the position and
\* keeps status paused.
C8_SeekWhilePlayingIsPlay ==
  [][(last'.op = "control" /\ last'.action = "seek"
        /\ last'.was \in {"playing", "paused"}) =>
       LET s == last'.s
           old == SESSION_STATE[s].playback
           new == SESSION_STATE'[s].playback
       IN /\ new["position"] = ctl.position
          /\ new["status"] = last'.was
          /\ DictGet(new, "audio_id", None) = DictGet(old, "audio_id", None)
          /\ last'.was = "playing" =>
               \A p \in DOMAIN ActiveOf(s) :
                  LET q == active[s][p] IN
                    Len(queues[q]) < QueueCap =>
                      /\ Len(queues'[q]) = Len(queues[q]) + 1
                      /\ SubSeq(queues'[q], 1, Len(queues[q])) = queues[q]
                      /\ queues'[q][Len(queues'[q])].type = "audio_play"]_vars

\* C8 happens: a seek arrived while playing and a client got audio_play for it
C8_Witness ==
  /\ last.op = "control"
  /\ last.action = "seek"
  /\ last.was = "playing"
  /\ SESSION_STATE[last.s].playback["status"] = "playing"
  /\ SESSION_STATE[last.s].playback["position"] = 1
  /\ \E p \in DOMAIN ActiveOf(last.s) :
       LET q == queues[active[last.s][p]] IN
         /\ Len(q) = 2
         /\ q[1].type = "audio_play" /\ q[1].position = 0
         /\ q[2].type = "audio_play" /\ q[2].position = 1

\* C9: no queue is registered for two (session, participant) pairs, the two
\* tables name the same queue for a pair, a connect registers its new queue in
\* place of the one P had, and a broadcast leaves every queue that is not
\* registered, a replaced one included, as it was.
C9_ReconnectReplacesChannel ==
  [][/\ \A s1 \in DOMAIN active', s2 \in DOMAIN active' :
          \A p1 \in DOMAIN active'[s1], p2 \in DOMAIN active'[s2] :
             active'[s1][p1] = active'[s2][p2] => (s1 = s2 /\ p1 = p2)
     /\ last'.op = "connect" =>
          /\ active'[last'.s][last'.p] = Len(queues')
          /\ SESSION_STATE'[last'.s].connections[last'.p] = Len(queues')
          /\ queues'[Len(queues')] = <<>>
     /\ last'.op = "broadcast" =>
          \A q \in DOMAIN queues : q \notin Registered(active) => queues'[q] = queues[q]]_vars

\* C9 happens: P connected twice and a broadcast followed; the second queue
\* got the message and the replaced one nothing
C9_Witness ==
  /\ last.op = "broadcast"
  /\ nops = 3
  /\ Len(queues) = 2
  /\ \E p \in Pids : DOMAIN ActiveOf(last.s) = {p} /\ active[last.s][p] = 2
  /\ queues[1] = <<>>
  /\ queues[2] = <<last.m>>

\* C10: a connect(S,...) that runs after close_session(S) removed S finds no
\* session: it registers no channel and no roster entry and does not bring S
\* back, so no channel of S is left registered once both calls are done.
C10_ConnectAfterCloseFindsNoSession ==
  [][(last.op = "close_session" /\ last.existed
        /\ last'.op = "connect" /\ last'.s = last.s) =>
       /\ last'.s \notin DOMAIN SESSION_STATE'
       /\ DOMAIN DictGet(active', last'.s, EmptyDict) = {}]_vars

\* the entries a step appended to queue q
Added(q) == SubSeq(queues'[q], Len(queues[q]) + 1, Len(queues'[q]))

\* C11: kick(S,P,reason) of a connected participant leaves P with no channel
\* registered and no roster entry, puts the kicked message on P's detached
\* channel, puts participant_kicked on that channel never, and on the
\* remaining channels only after it.
C11_KickDetachesThenNotifies ==
  [][(last'.op = "kick" /\ last'.q # NoChan) =>
       /\ last'.p \notin DOMAIN DictGet(active', last'.s, EmptyDict)
       /\ last'.p \notin DOMAIN Connections(SESSION_STATE', last'.s)
       /\ last'.p \notin DOMAIN Roster(SESSION_STATE', last'.s)
       /\ \E i \in DOMAIN Added(last'.q) :
             Added(last'.q)[i] = KickedMsg(ReasonOr(last'.reason))
       /\ \A i \in DOMAIN Added(last'.q) :
             Added(last'.q)[i] # ParticipantKickedMsg(last'.p)
       /\ queues' = BroadcastQueues(
             [queues EXCEPT ![last'.q] = queues'[last'.q]], active', last'.s,
             ParticipantKickedMsg(last'.p), {})]_vars

\* C12: after kick(S,P,reason) of a connected participant the last two entries
\* of P's detached channel are the kicked message, with the reason given or the
\* default one, and the terminal sentinel, whatever the channel held before.
C12_KickClosesDetachedChannel ==
  [][(last'.op = "kick" /\ last'.q # NoChan) =>
       LET q == queues'[last'.q] IN
         /\ Len(q) >= 2
         /\ q[Len(q) - 1] = KickedMsg(ReasonOr(last'.reason))
         /\ q[Len(q)] = Sentinel]_vars

\* the calls that change a session's state and broadcast the change
Mutating == {"mute", "hand", "select", "play", "pause"}

\* C13 as stated: of two mutating calls A then B on one session, every channel
\* registered throughout holds A's broadcast and then B's as its latest entries.
C13_EveryChannelGetsAThenB ==
  [][(last.op \in Mutating /\ last'.op \in Mutating /\ last'.s = last.s) =>
       \A p \in DOMAIN ActiveOf(last.s) :
          LET q == queues'[active[last.s][p]] IN
            /\ Len(q) >= 2
            /\ q[Len(q) - 1] = last.m
            /\ q[Len(q)] = last'.m]_vars

\* C13: a step only ever appends to a channel; of two mutating calls A then B
\* on one session, every channel registered throughout that has room when B's
\* broadcast runs holds A's broadcast and then B's as its latest entries, and a
\* channel that is full then is left as it was.
C13_BroadcastsInCallOrder ==
  [][/\ \A q \in DOMAIN queues :
          /\ Len(queues'[q]) >= Len(queues[q])
          /\ SubSeq(queues'[q], 1, Len(queues[q])) = queues[q]
     /\ (last.op \in Mutating /\ last'.op \in Mutating /\ last'.s = last.s) =>
          \A p \in DOMAIN ActiveOf(last.s) :
             LET q == active[last.s][p] IN
               IF QueueFull(queues[q])
               THEN queues'[q] = queues[q]
               ELSE /\ queues[q][Len(queues[q])] = last.m
                    /\ queues'[q] = Append(queues[q], last'.m)]_vars

\* C13 happens: a mute and then a pause reached both connected participants,
\* in that order
C13_Witness ==
  /\ last.op = "pause"
  /\ DOMAIN ActiveOf(last.s) = Pids
  /\ \A p \in Pids :
       queues[active[last.s][p]] = <<MutedMsg(2, TRUE), AudioPauseMsg(0)>>

\* the status a playback delta announces
DeltaStatus(type) ==
  CASE type = "audio_selected" -> "stopped"
    [] type = "audio_play"     -> "playing"
    [] type = "audio_pause"    -> "paused"

PlaybackDeltas == {"audio_selected", "audio_play", "audio_pause"}

\* positions of the playback deltas held by a channel
DeltasIn(q) == {i \in DOMAIN q : q[i].type \in PlaybackDeltas}

MaxOf(S) == CHOOSE x \in S : \A y \in S : x >= y

\* the latest playback delta of channel q agrees with the stored status of s
DeltaAgrees(s, q) ==
  DeltasIn(q) # {} =>
    DeltaStatus(q[MaxOf(DeltasIn(q))].type) = DictGet(SESSION_STATE[s].playback, "status", "")

\* C14 as stated: whenever no playback call is under way, the latest playback
\* delta on every registered channel agrees with the stored playback status.
C14_LastDeltaAgreesOnEveryChannel ==
  ctl = <<>> =>
    \A s \in DOMAIN active : \A p \in DOMAIN active[s] :
       DeltaAgrees(s, queues[active[s][p]])

\* C14: whenever no playback call is under way, the latest playback delta on
\* every registered channel that has not filled up agrees with the stored
\* playback status: audio_selected with stopped, audio_play with playing,
\* audio_pause with paused.
C14_LastDeltaAgreesWithStatus ==
  ctl = <<>> =>
    \A s \in DOMAIN active : \A p \in DOMAIN active[s] :
       ~QueueFull(queues[active[s][p]]) => DeltaAgrees(s, queues[active[s][p]])

\* C14 happens: a pause through the control endpoint followed a play, and a
\* client holds the two deltas in that order while the status is paused
C14_Witness ==
  /\ last.op = "control"
  /\ last.action = "pause"
  /\ last.was = "playing"
  /\ SESSION_STATE[last.s].playback["status"] = "paused"
  /\ \E p \in DOMAIN ActiveOf(last.s) :
       LET q == queues[active[last.s][p]] IN
         /\ Len(q) = 2
         /\ q[1].type = "audio_play"
         /\ q[2].type = "audio_pause"

\* C15: in a broadcast that drops the copy of a full recipient, every other
\* registered recipient outside the exclude set whose channel has room gets
\* the message appended, and the full channels stay as they were, wherever
\* the full channel comes in the iteration.
C15_FullRecipientDoesNotStopOthers ==
  [][(last'.op = "broadcast" /\ last'.dropped # {}) =>
       /\ \A p \in last'.dropped : queues'[active[last'.s][p]] = queues[active[last'.s][p]]
       /\ \A r \in DOMAIN ActiveOf(last'.s) \ (last'.ex \cup last'.dropped) :
            queues'[active[last'.s][r]] = Append(queues[active[last'.s][r]], last'.m)]_vars

\* C15 happens: the recipient iterated first was full and the one after it
\* got the message
C15_Witness ==
  /\ last.op = "broadcast"
  /\ last.dropped = {1}
  /\ 2 \in DOMAIN ActiveOf(last.s) \ last.ex
  /\ Len(queues[active[last.s][1]]) = QueueCap
  /\ queues[active[last.s][2]] = <<last.m>>

\* C16: disconnect(S,P) for a P with no channel registered in S, be it that P
\* disconnected before, never connected, or that S is unknown, changes
\* nothing: both tables, every roster entry and every queue stay as they were.
C16_DisconnectIsIdempotent ==
  [][(last'.op = "disconnect" /\ ~last'.had) =>
       /\ active' = active
       /\ SESSION_STATE' = SESSION_STATE
       /\ queues' = queues
       /\ lock' = lock]_vars

\* C16 happens: a participant that had connected and was disconnected already
\* is disconnected again
C16_Witness ==
  /\ last.op = "disconnect"
  /\ ~last.had
  /\ last.p \in DOMAIN Roster(SESSION_STATE, last.s)
  /\ "user_id" \in DOMAIN Roster(SESSION_STATE, last.s)[last.p]
  /\ last.p \notin DOMAIN ActiveOf(last.s)

\* C17: a broadcast on a session id that the connection map does not know, or
\* that has no channel registered, leaves every queue of every session as it
\* was and adds no entry to either table.
C17_BroadcastWithoutRecipientsIsNoOp ==
  [][(last'.op = "broadcast" /\ DOMAIN ActiveOf(last'.s) = {}) =>
       /\ queues' = queues
       /\ active' = active
       /\ SESSION_STATE' = SESSION_STATE]_vars

\* C17 happens: a broadcast named a session in neither table while another
\* session had a channel registered, which stayed empty
C17_Witness ==
  /\ last.op = "broadcast"
  /\ last.s \notin DOMAIN active \cup DOMAIN SESSION_STATE
  /\ \E s \in DOMAIN active : \E p \in DOMAIN active[s] : queues[active[s][p]] = <<>>

C19_PlayWithoutAudioIsRejected ==
  [][(last'.op \in {"play", "play_rejected", "control_query", "control_rejected"}
        /\ last'.a = None /\ last'.s \in DOMAIN SESSION_STATE) =>
       LET stored == DictGet(SESSION_STATE[last'.s].playback, "audio_id", None) IN
         IF stored = None
         THEN /\ last'.op \in {"play_rejected", "control_rejected"}
              /\ SESSION_STATE' = SESSION_STATE
              /\ queues' = queues
              /\ active' = active
              /\ ctl' = <<>>
         ELSE /\ last'.op \in {"play", "control_query"}
              /\ last'.op = "play" =>
                   /\ SESSION_STATE'[last'.s].playback["audio_id"] = stored
                   /\ SESSION_STATE'[last'.s].playback["status"] = "playing"
                   /\ last'.m.audio_id = stored
                   /\ queues' = BroadcastQueues(queues, active, last'.s, last'.m, {})
              /\ last'.op = "control_query" => ctl'.audio_id = stored]_vars

\* C19 happens: a play without audio_id was rejected on a session with a
\* client and nothing selected, and the client got nothing
C19_Witness ==
  /\ last.op = "play_rejected"
  /\ last.s \in DOMAIN SESSION_STATE
  /\ SESSION_STATE[last.s].playback["audio_id"] = None
  /\ SESSION_STATE[last.s].playback["status"] = "stopped"
  /\ \E p \in DOMAIN ActiveOf(last.s) : queues[active[last.s][p]] = <<>>

\* what select must leave of session s: audio_id, title, status and position
\* set, every other playback field, the roster and both channel tables kept
SelectFrame(s, a, title) ==
  LET old == SESSION_STATE[s]
      new == SESSION_STATE'[s]
  IN /\ DictGet(new.playback, "audio_id", None) = a
     /\ DictGet(new.playback, "title", None) = title
     /\ DictGet(new.playback, "status", "") = "stopped"
     /\ DictGet(new.playback, "position", -1) = 0
     /\ \A k \in DOMAIN old.playback \ {"audio_id", "title", "status", "position"} :
           k \in DOMAIN new.playback /\ new.playback[k] = old.playback[k]
     /\ new.participants = old.participants
     /\ new.connections = old.connections
     /\ active' = active

\* C20 as stated: select(S, a, t) on an existing session sets the four fields,
\* keeps roster and registrations, and appends audio_selected to the channel of
\* every registered participant.
C20_SelectReachesEveryChannel ==
  [][(last'.op = "select" /\ last'.s \in DOMAIN SESSION_STATE) =>
       /\ SelectFrame(last'.s, last'.m.audio_id, last'.m.title)
       /\ \A p \in DOMAIN ActiveOf(last'.s) :
            queues'[active[last'.s][p]] = Append(queues[active[last'.s][p]], last'.m)]_vars

\* C20: select(S, a, t) on an existing session sets audio_id = a, title = t,
\* status = stopped and position = 0 from any status, keeps every roster entry
\* and channel registration, appends one audio_selected message to each
\* registered channel that has room, and leaves every other queue as it was.
C20_SelectResetsAndNotifies ==
  [][(last'.op = "select" /\ last'.s \in DOMAIN SESSION_STATE) =>
       /\ SelectFrame(last'.s, last'.m.audio_id, last'.m.title)
       /\ last'.m.type = "audio_selected"
       /\ \A q \in DOMAIN queues :
            queues'[q] = IF q \in {active[last'.s][p] : p \in DOMAIN ActiveOf(last'.s)}
                            /\ ~QueueFull(queues[q])
                         THEN Append(queues[q], last'.m)
                         ELSE queues[q]]_vars

\* C20 happens: a select came while the session was playing at position 1; a
\* client holds audio_play and then audio_selected, and the session is stopped
\* at position 0
C20_Witness ==
  /\ last.op = "select"
  /\ SESSION_STATE[last.s].playback["status"] = "stopped"
  /\ SESSION_STATE[last.s].playback["position"] = 0
  /\ \E p \in DOMAIN ActiveOf(last.s) :
       queues[active[last.s][p]] = <<AudioPlayMsg(1, DefaultSpeed, 1), last.m>>

\* what mute must leave of session s: the is_muted flag of p set, every other
\* field of p, every other roster entry, playback and both channel tables kept
MuteFrame(s, p, mute) ==
  LET old == SESSION_STATE[s]
      new == SESSION_STATE'[s]
  IN /\ DOMAIN new.participants = DOMAIN old.participants
     /\ DOMAIN new.participants[p] = DOMAIN old.participants[p] \cup {"is_muted"}
     /\ new.participants[p]["is_muted"] = mute
     /\ \A k \in DOMAIN old.participants[p] \ {"is_muted"} :
           new.participants[p][k] = old.participants[p][k]
     /\ \A r \in DOMAIN old.participants \ {p} : new.participants[r] = old.participants[r]
     /\ new.playback = old.playback
     /\ new.connections = old.connections
     /\ active' = active

\* C21 as stated: mute(S,P,m) of a participant with a roster entry sets the
\* flag, keeps everything else, and appends participant_muted with is_muted = m
\* to the channel of every registered participant of S.
C21_MuteReachesEveryChannel ==
  [][(last'.op = "mute" /\ last'.p \in DOMAIN Roster(SESSION_STATE, last'.s)) =>
       /\ MuteFrame(last'.s, last'.p, last'.mute)
       /\ \A r \in DOMAIN ActiveOf(last'.s) :
            queues'[active[last'.s][r]] =
               Append(queues[active[last'.s][r]], MutedMsg(last'.p, last'.mute))]_vars

\* C21: mute(S,P,m) of a participant with a roster entry in an existing session
\* sets P's is_muted to m, keeps every other field of P, every other roster
\* entry, the playback state and the registrations, appends participant_muted
\* with is_muted = m to each registered channel of S that has room, and leaves
\* every other queue as it was.
C21_MuteSetsFlagAndNotifies ==
  [][(last'.op = "mute" /\ last'.p \in DOMAIN Roster(SESSION_STATE, last'.s)) =>
       /\ MuteFrame(last'.s, last'.p, last'.mute)
       /\ \A q \in DOMAIN queues :
            queues'[q] = IF q \in {active[last'.s][r] : r \in DOMAIN ActiveOf(last'.s)}
                            /\ ~QueueFull(queues[q])
                         THEN Append(queues[q], MutedMsg(last'.p, last'.mute))
                         ELSE queues[q]]_vars

\* C21 happens: a connected participant with the hand raised was muted while
\* another was connected; both hold the message and the hand is still raised
C21_Witness ==
  /\ last.op = "mute"
  /\ last.mute
  /\ DOMAIN ActiveOf(last.s) = Pids
  /\ Roster(SESSION_STATE, last.s)[last.p]["is_muted"]
  /\ Roster(SESSION_STATE, last.s)[last.p]["raised_hand"]
  /\ "user_id" \in DOMAIN Roster(SESSION_STATE, last.s)[last.p]
  /\ \A r \in Pids :
       LET q == queues[active[last.s][r]] IN Len(q) > 0 /\ q[Len(q)] = MutedMsg(last.p, TRUE)

\* C22: a connect(S,P,...) that comes right after kick(S,P) writes a roster
\* entry for P with is_muted and raised_hand false, whatever flags the entry
\* that the kick removed had.
C22_KickLeavesNoRejoinState ==
  [][(last.op = "kick" /\ last'.op = "connect" /\ last'.s = last.s /\ last'.p = last.p) =>
       /\ last.p \notin DOMAIN Roster(SESSION_STATE, last.s)
       /\ last'.kind = "fresh"
       /\ ~FlagOf(Roster(SESSION_STATE', last.s)[last.p], "is_muted")
       /\ ~FlagOf(Roster(SESSION_STATE', last.s)[last.p], "raised_hand")
       /\ "is_muted" \in DOMAIN Roster(SESSION_STATE', last.s)[last.p]
       /\ "raised_hand" \in DOMAIN Roster(SESSION_STATE', last.s)[last.p]]_vars

\* C22 happens: a participant was muted, then kicked, then connected again; its
\* first channel holds the mute and the kick, its entry is not muted
C22_Witness ==
  /\ last.op = "connect"
  /\ last.kind = "fresh"
  /\ Len(queues) = 2
  /\ Len(queues[1]) = 2
  /\ queues[1][1] = MutedMsg(last.p, TRUE)
  /\ queues[1][2].type = "kicked"
  /\ active[last.s][last.p] = 2
  /\ ~Roster(SESSION_STATE, last.s)[last.p]["is_muted"]

\* C23: after a join of P through session_ws, P has a channel whose latest
\* entry is the session_state snapshot with P in its roster, that channel holds
\* no participant_joined of P, and the channel of every other registered
\* participant that had room got participant_joined of P appended.
C23_JoinBroadcastThenSnapshot ==
  [][last'.op = "ws_join" =>
       LET s == last'.s
           p == last'.p
       IN /\ p \in DOMAIN DictGet(active', s, EmptyDict)
          /\ LET q == queues'[active'[s][p]] IN
               /\ Len(q) > 0
               /\ q[Len(q)].type = "session_state"
               /\ p \in DOMAIN q[Len(q)].participants
               /\ \A i \in DOMAIN q : q[i] # JoinedMsg(p)
          /\ \A r \in DOMAIN ActiveOf(s) \ {p} :
               ~QueueFull(queues[active[s][r]]) =>
                  queues'[active[s][r]] = Append(queues[active[s][r]], JoinedMsg(p))]_vars

StatusOf(st, s) == DictGet(st[s].playback, "status", "stopped")

\* C25: the playback status of a session changes only from stopped to
\* playing, from playing to paused, from paused to playing, or from any status
\* to stopped; never from stopped to paused.
C25_StatusFollowsStateMachine ==
  [][\A s \in DOMAIN SESSION_STATE \cap DOMAIN SESSION_STATE' :
        StatusOf(SESSION_STATE', s) # StatusOf(SESSION_STATE, s) =>
           \/ StatusOf(SESSION_STATE', s) = "stopped"
           \/ <<StatusOf(SESSION_STATE, s), StatusOf(SESSION_STATE', s)>> \in
                 {<<"stopped", "playing">>, <<"playing", "paused">>, <<"paused", "playing">>}]_vars

\* C26: in every state, a call that is suspended in a database query does not
\* hold SESSION_LOCK.
C26_LockNotHeldAcrossIO ==
  ctl # <<>> => lock = "free"

\* C27: SESSION_LOCK has one holder or none, and a step that writes a roster,
\* a playback state or a channel registration is taken by a call that holds
\* the lock: a call that found it free and releases it in the same step, or
\* the playback-control call that has held it since its query began.
C27_WritesUnderLock ==
  [][/\ lock' \in {"free", "control"}
     /\ (lock' = "control") <=> (ctl' # <<>>)
     /\ (SESSION_STATE' # SESSION_STATE \/ active' # active) =>
          \/ (lock = "free" /\ lock' = "free")
          \/ (lock = "control" /\ last'.op = "control" /\ lock' = "free")]_vars

\* C27 happens: a playback-control call wrote the playback state at the end of
\* its query, and a mute that followed wrote the roster; a client holds both
\* messages
C27_Witness ==
  /\ last.op = "mute"
  /\ lock = "free"
  /\ last.p \in DOMAIN Roster(SESSION_STATE, last.s)
  /\ Roster(SESSION_STATE, last.s)[last.p]["is_muted"] = last.mute
  /\ \E p \in DOMAIN ActiveOf(last.s) :
       LET q == queues[active[last.s][p]] IN
         /\ Len(q) = 2
         /\ q[1] = ControlMsg("play", 1, DefaultSpeed, 0)
         /\ q[2] = last.m

\* C28: a select, play, pause, mute, kick, disconnect or broadcast on a
\* session id that is in neither table leaves that id in neither table.
C28_AbsentSessionStaysAbsent ==
  [][(last'.op \in {"select", "play", "play_rejected", "pause", "mute", "kick",
                    "disconnect", "broadcast"}
        /\ last'.s \notin DOMAIN SESSION_STATE \cup DOMAIN active) =>
       last'.s \notin DOMAIN SESSION_STATE' \cup DOMAIN active']_vars

C30_ConnectKeepsExistingData ==
  [][(last'.op = "connect" /\ last'.s \in DOMAIN SESSION_STATE) =>
       LET s == last'.s
           old == SESSION_STATE[s]
           new == DictGet(SESSION_STATE', s, NewSessionState)
           regOld == DictGet(active, s, EmptyDict)
           regNew == DictGet(active', s, EmptyDict)
       IN /\ new.playback = old.playback
          /\ DOMAIN new.participants \ {last'.p} = DOMAIN old.participants \ {last'.p}
          /\ \A o \in DOMAIN old.participants \ {last'.p} :
               DictGet(new.participants, o, EmptyDict) = old.participants[o]
          /\ DOMAIN new.connections \ {last'.p} = DOMAIN old.connections \ {last'.p}
          /\ \A o \in DOMAIN old.connections \ {last'.p} :
               DictGet(new.connections, o, NoChan) = old.connections[o]
          /\ DOMAIN regNew \ {last'.p} = DOMAIN regOld \ {last'.p}
          /\ \A o \in DOMAIN regOld \ {last'.p} :
               DictGet(regNew, o, NoChan) = regOld[o]]_vars

\* a connect has just joined a session that is playing and in which another
\* participant is registered and muted
C30_Witness ==
  /\ last.op = "connect"
  /\ last.s \in DOMAIN SESSION_STATE
  /\ DictGet(SESSION_STATE[last.s].playback, "status", "stopped") = "playing"
  /\ \E o \in DOMAIN ActiveOf(last.s) \ {last.p} :
       /\ o \in DOMAIN SESSION_STATE[last.s].participants
       /\ DictGet(SESSION_STATE[last.s].participants[o], "is_muted", FALSE)

\* C31: a kick of a participant that has neither a registered channel nor a
\* roster entry in the session (the session may be unknown) changes neither
\* table and enqueues no message on any channel.
C31_KickOfUnknownIsNoOp ==
  [][(/\ last'.op = "kick"
      /\ last'.p \notin DOMAIN DictGet(active, last'.s, EmptyDict)
      /\ last'.p \notin DOMAIN Roster(SESSION_STATE, last'.s)) =>
       /\ active' = active
       /\ SESSION_STATE' = SESSION_STATE
       /\ queues' = queues]_vars

\* C32: a play with audio_id omitted stores and broadcasts the audio id that
\* is the session's selected audio at the moment the play transition is
\* applied.
C32_PlayUsesCurrentSelection ==
  [][(/\ last'.op = "play"
      /\ last'.a = None
      /\ last'.s \in DOMAIN SESSION_STATE) =>
       LET selected == DictGet(SESSION_STATE[last'.s].playback, "audio_id", None) IN
         /\ DictGet(SESSION_STATE'[last'.s].playback, "audio_id", None) = selected
         /\ last'.m.audio_id = selected]_vars

\* C33: every audio_play message that a play, or a seek while playing,
\* enqueues carries the audio_id, speed and position that the session's
\* playback state holds right after that transition.
C33_PlayMessageMatchesState ==
  [][(last'.op \in {"play", "control"} /\ last'.s \in DOMAIN SESSION_STATE') =>
       LET new == SESSION_STATE'[last'.s].playback IN
         \A q \in DOMAIN queues :
           \A i \in DOMAIN Added(q) :
             Added(q)[i].type = "audio_play" =>
               /\ Added(q)[i].audio_id = DictGet(new, "audio_id", None)
               /\ Added(q)[i].speed = DictGet(new, "speed", None)
               /\ Added(q)[i].position = DictGet(new, "position", None)]_vars

\* C34: when P's channel has just been replaced by a reconnect, the
\* disconnect(S,P) that the replaced connection issues leaves P's newer channel
\* registered in both tables, so that it keeps receiving broadcasts.
C34_StaleDisconnectKeepsNewChannel ==
  [][(/\ last.op = "connect" /\ last.kind = "replace"
      /\ last'.op = "disconnect" /\ last'.s = last.s /\ last'.p = last.p) =>
       /\ last'.p \in DOMAIN DictGet(active', last'.s, EmptyDict)
       /\ DictGet(DictGet(active', last'.s, EmptyDict), last'.p, NoChan) = active[last.s][last.p]
       /\ last'.p \in DOMAIN Connections(SESSION_STATE', last'.s)]_vars

\* queue number q exists and holds the terminal sentinel
HasSentinel(q) == q \in DOMAIN queues /\ \E i \in DOMAIN queues[q] : queues[q][i] = Sentinel

\* C35: every channel that connect handed out and that is no longer
\* registered (replaced by a reconnect, disconnected, or its session closed)
\* eventually holds the terminal sentinel.
C35_EveryChannelEventuallyCloses ==
  \A q \in 1..MaxChans :
    [](q \in DOMAIN queues /\ q \notin Registered(active) => <>HasSentinel(q))

\* C36: a channel that holds the terminal sentinel is registered for no
\* session, and no step of a kick, disconnect_participant, close_session or
\* broadcast enqueues anything further on it.
C36_NothingAfterSentinel ==
  [][\A q \in DOMAIN queues' :
       HasSentinel(q)' =>
         /\ \A s \in DOMAIN active' : \A p \in DOMAIN active'[s] : active'[s][p] # q
         /\ HasSentinel(q) => queues'[q] = queues[q]]_vars

\* a broadcast has just reached a registered channel of a session in which
\* another channel already held the sentinel
C36_Witness ==
  /\ last.op = "broadcast"
  /\ \E q \in DOMAIN queues : HasSentinel(q)
  /\ \E p \in DOMAIN ActiveOf(last.s) :
       LET q == queues[active[last.s][p]] IN
         Len(q) > 0 /\ q[Len(q)] = last.m

\* C37: for every session, the manager's connection map and the session
\* state's connections table hold the same participants with the same channels.
C37_TablesAgree ==
  \A s \in DOMAIN active \cup DOMAIN SESSION_STATE :
    DictGet(active, s, EmptyDict) = Connections(SESSION_STATE, s)

\* a disconnect has just removed a registered channel from both tables while
\* another participant's channel stays in both
C37_Witness ==
  /\ last.op = "disconnect"
  /\ last.had
  /\ last.p \notin DOMAIN ActiveOf(last.s)
  /\ last.p \notin DOMAIN Connections(SESSION_STATE, last.s)
  /\ \E o \in DOMAIN ActiveOf(last.s) :
       /\ o \in DOMAIN Connections(SESSION_STATE, last.s)
       /\ SESSION_STATE[last.s].connections[o] = active[last.s][o]

\* C38: every participant with a registered channel in a session has a roster
\* entry in that session.
C38_OnlineImpliesKnown ==
  \A s \in DOMAIN active :
    \A p \in DOMAIN active[s] : p \in DOMAIN Roster(SESSION_STATE, s)

\* a kick has just removed the roster entry and the channel of a connected
\* participant, and another participant is still online and known
C38_Witness ==
  /\ last.op = "kick"
  /\ last.q # NoChan
  /\ last.entry # EmptyDict
  /\ last.p \notin DOMAIN ActiveOf(last.s)
  /\ last.p \notin DOMAIN Roster(SESSION_STATE, last.s)
  /\ \E o \in DOMAIN ActiveOf(last.s) : o \in DOMAIN Roster(SESSION_STATE, last.s)

\* C39: a call on session S leaves the session state (roster, playback,
\* connections) and the registrations of every other session as they were and
\* enqueues nothing on a channel registered for another session.
C39_SessionsAreIsolated ==
  [][\A o \in BothSessions \ {last'.s} :
       /\ (o \in DOMAIN SESSION_STATE') = (o \in DOMAIN SESSION_STATE)
       /\ o \in DOMAIN SESSION_STATE =>
            DictGet(SESSION_STATE', o, EmptyDict) = SESSION_STATE[o]
       /\ (o \in DOMAIN active') = (o \in DOMAIN active)
       /\ o \in DOMAIN active =>
            /\ DictGet(active', o, EmptyDict) = active[o]
            /\ \A p \in DOMAIN active[o] : queues'[active[o][p]] = queues[active[o][p]]]_vars

\* a kick in one session has just removed a participant that is online, known
\* and muted in the other session too
C39_Witness ==
  /\ last.op = "kick"
  /\ last.q # NoChan
  /\ last.entry # EmptyDict
  /\ \E o \in BothSessions \ {last.s} :
       /\ o \in DOMAIN SESSION_STATE
       /\ last.p \in DOMAIN DictGet(active, o, EmptyDict)
       /\ last.p \in DOMAIN SESSION_STATE[o].participants
       /\ DictGet(SESSION_STATE[o].participants[last.p], "is_muted", FALSE)

Waiting(i) == \E k \in DOMAIN waiters : waiters[k].id = i

\* C40: the lock is held exactly while a playback-control call is in its
\* query, that call releases it on every path, the rejections included, and
\* every call that queued for the lock eventually runs to its end.
C40_LockIsReleasedAndGranted ==
  /\ [](lock = "control" <=> ctl # <<>>)
  /\ [][ctl # <<>> /\ ctl' = <<>> => lock' = "free"]_vars
  /\ (lock = "control") ~> (lock = "free")
  /\ \A i \in 1..MaxOps : Waiting(i) ~> ~Waiting(i)

\* a kick that queued behind a playback-control call which was then rejected
\* has run, and nothing is left waiting
C40_Witness ==
  /\ last.op = "kick"
  /\ "id" \in DOMAIN last
  /\ last.q # NoChan
  /\ waiters = <<>>
  /\ lock = "free"
====
